---- MODULE Spec2Model ----
(***************************************************************************)
(* A model of the callable handlers of src/functions/src/index.ts: the     *)
(* Firestore documents they read and write (users/{key}, its "emotions"    *)
(* and "playlists" sub-collections), the answers of the Last.fm API, and   *)
(* the handlers themselves, one action per store or network round trip,    *)
(* so that concurrent invocations interleave between their awaits.         *)
(***************************************************************************)
EXTENDS Integers, Sequences, FiniteSets, TLC

\* ------------------------------------------------------------------ bounds
MaxId == 2
MaxPlaylists == 1
MaxClock == 2
MaxParams == 2
MaxTracks == 2

\* ------------------------------------------------------------- value sets
Empty == ""
Undefined == "undefined"
Absent == "absent"
Null == "null"

Keys == {"SK1", "SK2"}
TrackIds == {"T1", "T2"}
Titles == {"Song"}
Artists == {"Artist"}
EmotionLabels == {"happy", "sad"}
Groups == {"joy", "calm"}
BroadGroups == {"bg"}
Names == {"mix"}
Usernames == {"alice"}
RealNames == {"Alice A"}
LastfmNames == {"alice", "al"}
Passwords == {"pw1"}

Slots == {"a", "b"}
RecordIds == 1..MaxId
PlaylistIds == 1..MaxPlaylists

VARIABLES users, emotions, playlists, usedIds, usedPl, clock, upstream,
          pc, loc, lastRet, lastTag, wiped

vars == <<users, emotions, playlists, usedIds, usedPl, clock, upstream,
          pc, loc, lastRet, lastTag, wiped>>

\* ------------------------------------------------------------ store model
NoDoc ==
  [exists |-> FALSE, username |-> Absent, lastLogin |-> 0, createdAt |-> 0,
   realname |-> Absent, infoCreatedAt |-> 0]

NoLoc == [op |-> "none"]
NoRet == [op |-> "none"]
NoTag == [trackId |-> Empty, id |-> 0, twice |-> FALSE, data |-> <<>>]
NoWipe == [state |-> "no", reader |-> "none", removed |-> 0]

EmotionsOf(sk) == {e \in emotions : e.sk = sk}
PlaylistsOf(sk) == {pl \in playlists : pl.sk = sk}
Ids(recs) == {e.id : e \in recs}

\* Firestore rejects a document that carries an undefined field value
\* (ignoreUndefinedProperties is not enabled by db.settings).
ValidDocument(fields) == \A v \in fields : v # Undefined

\* add() generates an identity no document has had before.
FreshIds(unused) == unused

MinId(recs) == CHOOSE i \in Ids(recs) : \A j \in Ids(recs) : i <= j

RECURSIVE OrderById(_)
OrderById(recs) ==
  IF recs = {} THEN <<>>
  ELSE LET first == CHOOSE e \in recs : e.id = MinId(recs)
       IN <<first>> \o OrderById(recs \ {first})

Newer(a, b) ==
  \/ a.timestamp > b.timestamp
  \/ a.timestamp = b.timestamp /\ a.id >= b.id

\* The same records, oldest first.
RECURSIVE OrderByTimestampAsc(_)
OrderByTimestampAsc(recs) ==
  IF recs = {} THEN <<>>
  ELSE LET first == CHOOSE e \in recs : \A f \in recs : Newer(f, e)
       IN <<first>> \o OrderByTimestampAsc(recs \ {first})

RECURSIVE OrderByTimestampDesc(_)
OrderByTimestampDesc(recs) ==
  IF recs = {} THEN <<>>
  ELSE LET first == CHOOSE e \in recs : \A f \in recs : Newer(e, f)
       IN <<first>> \o OrderByTimestampDesc(recs \ {first})

Return(p, op, ok, val) ==
  lastRet' = [op |-> op, ok |-> ok, val |-> val]

Fail(p, op, msg) == Return(p, op, FALSE, msg)

Finish(p) ==
  /\ pc' = [pc EXCEPT ![p] = "idle"]
  /\ loc' = [loc EXCEPT ![p] = NoLoc]

InFlight(p, op, sk) == pc[p] # "idle" /\ loc[p].op = op /\ loc[p].sessionKey = sk

\* What auth.getMobileSession can answer: an error envelope, a body that
\* cannot be fetched or parsed, or a session object with or without its
\* key and name.
AuthResponses ==
  {[kind |-> "error", key |-> Absent, name |-> Absent],
   [kind |-> "throw", key |-> Absent, name |-> Absent]}
  \cup {[kind |-> "session", key |-> k, name |-> n] :
          k \in Keys \cup {Absent}, n \in LastfmNames \cup {Undefined}}

\* What user.getInfo can answer: an error envelope, a body that cannot be
\* fetched or parsed, a body without a user object, or a user object with
\* or without a real name.
UserResponses ==
  {[kind |-> "error", realname |-> Absent],
   [kind |-> "throw", realname |-> Absent],
   [kind |-> "nouser", realname |-> Absent]}
  \cup {[kind |-> "user", realname |-> r] : r \in RealNames \cup {Absent}}

\* The outcomes of one store operation: it succeeds, or, while the store is
\* subject to faults, it is rejected (every await on the store sits in a
\* try block whose catch answers with the handler's failure).
StoreOutcomes == IF upstream.faults THEN BOOLEAN ELSE {TRUE}

Init ==
  /\ users = [k \in Keys |-> NoDoc]
  /\ emotions = {}
  /\ playlists = {}
  /\ usedIds = [k \in Keys |-> {}]
  /\ usedPl = {}
  /\ clock = 1
  /\ upstream = [auth |-> [kind |-> "error", key |-> Absent, name |-> Absent],
                 user |-> [kind |-> "error", realname |-> Absent],
                 faults |-> TRUE]
  /\ pc = [p \in Slots |-> "idle"]
  /\ loc = [p \in Slots |-> NoLoc]
  /\ lastRet = NoRet
  /\ lastTag = [k \in Keys |-> NoTag]
  /\ wiped = [k \in Keys |-> NoWipe]

\* The Last.fm service comes to answer auth.getMobileSession differently.
UpstreamChange ==
  /\ \E response \in AuthResponses \ {upstream.auth} :
       upstream' = [upstream EXCEPT !.auth = response]
  /\ lastRet' = NoRet
  /\ UNCHANGED <<users, emotions, playlists, usedIds, usedPl, clock, pc, loc,
                 lastTag, wiped>>

\* Date.now() and the store's server time advance between steps.
Tick ==
  /\ clock < MaxClock
  /\ clock' = clock + 1
  /\ lastRet' = NoRet
  /\ UNCHANGED <<users, emotions, playlists, usedIds, usedPl, upstream, pc,
                 loc, lastTag, wiped>>

\* A handler that may write the emotion collection of sk has been invoked:
\* a delete-all of sk that is in flight is no longer alone (tagTrack only),
\* and a listEmotions of sk that starts later is no longer the next call.
NoteWriter(p, sk, newloc, isTag) ==
  /\ loc' = [r \in Slots |->
              IF r = p THEN newloc
              ELSE IF isTag /\ InFlight(r, "deleteEmotionHistory", sk)
                   THEN [loc[r] EXCEPT !.alone = FALSE]
                   ELSE loc[r]]
  /\ wiped' = [wiped EXCEPT ![sk] = NoWipe]

\* --------------------------------------------------- storeEmotion (tagTrack)
EmotionData(l) ==
  [trackId |-> l.trackId, trackTitle |-> l.trackTitle, artist |-> l.artist,
   emotion |-> l.emotion, group |-> l.group, broadgroup |-> l.broadgroup,
   timestamp |-> l.timestamp]

EmotionDoc(sk, id, d) ==
  [sk |-> sk, id |-> id, trackId |-> d.trackId, trackTitle |-> d.trackTitle,
   artist |-> d.artist, emotion |-> d.emotion, group |-> d.group,
   broadgroup |-> d.broadgroup, timestamp |-> d.timestamp]

ValidEmotionData(d) ==
  ValidDocument({d.trackId, d.trackTitle, d.artist, d.emotion, d.group,
                 d.broadgroup})

\* A lookup that never finds the record of the track.
ExistingEmotionNone(sk, trackId) == 0

\* where("trackId", "==", trackId).limit(1): the first match in id order.
ExistingEmotion(sk, trackId) ==
  LET found == {e \in EmotionsOf(sk) : e.trackId = trackId}
  IN IF found = {} THEN 0 ELSE MinId(found)

\* A handler that runs its lookup query before it validates the request.
StoreEmotionLookupFirst(p, data) ==
  /\ pc[p] = "idle"
  /\ \E storeOk \in StoreOutcomes :
       IF ~storeOk
       THEN /\ Fail(p, "storeEmotion", "Failed to store emotion")
            /\ UNCHANGED <<pc, loc, wiped>>
       ELSE IF data.sessionKey = Empty \/ data.trackId = Empty
               \/ data.trackTitle = Empty \/ data.artist = Empty
               \/ data.emotion = Empty
            THEN /\ Fail(p, "storeEmotion", "Missing the required fields")
                 /\ UNCHANGED <<pc, loc, wiped>>
            ELSE /\ pc' = [pc EXCEPT ![p] = "tag_write"]
                 /\ NoteWriter(p, data.sessionKey,
                      [op |-> "storeEmotion", sessionKey |-> data.sessionKey,
                       trackId |-> data.trackId,
                       trackTitle |-> data.trackTitle,
                       artist |-> data.artist, emotion |-> data.emotion,
                       group |-> data.group, broadgroup |-> data.broadgroup,
                       timestamp |-> clock,
                       docId |-> ExistingEmotion(data.sessionKey, data.trackId)],
                      TRUE)
                 /\ lastRet' = NoRet
  /\ UNCHANGED <<users, emotions, playlists, usedIds, usedPl, clock, upstream, lastTag>>

\* Lines 219-243: validation, Date.now(), and the lookup query.
StoreEmotionLookup(p, data) ==
  /\ pc[p] = "idle"
  /\ IF data.sessionKey = Empty \/ data.trackId = Empty
        \/ data.trackTitle = Empty \/ data.artist = Empty
        \/ data.emotion = Empty
     THEN /\ Fail(p, "storeEmotion", "Missing the required fields")
          /\ UNCHANGED <<pc, loc, wiped>>
     ELSE \E storeOk \in StoreOutcomes :
            IF storeOk
            THEN /\ pc' = [pc EXCEPT ![p] = "tag_write"]
                 /\ NoteWriter(p, data.sessionKey,
                      [op |-> "storeEmotion", sessionKey |-> data.sessionKey,
                       trackId |-> data.trackId,
                       trackTitle |-> data.trackTitle,
                       artist |-> data.artist, emotion |-> data.emotion,
                       group |-> data.group, broadgroup |-> data.broadgroup,
                       timestamp |-> clock,
                       docId |-> ExistingEmotion(data.sessionKey, data.trackId)],
                      TRUE)
                 /\ lastRet' = NoRet
            ELSE /\ Fail(p, "storeEmotion", "Failed to store emotion")
                 /\ UNCHANGED <<pc, loc, wiped>>
  /\ UNCHANGED <<users, emotions, playlists, usedIds, usedPl, clock, upstream, lastTag>>

\* The last successful tagTrack on sk, when no delete on sk followed it:
\* its track, the identity and data of the record it wrote, and whether the
\* successful tagTrack before it was for the same track.
TagDone(sk, id, d) ==
  lastTag' = [lastTag EXCEPT ![sk] =
                [trackId |-> d.trackId, id |-> id,
                 twice |-> (lastTag[sk].trackId = d.trackId), data |-> d]]

\* Lines 245-251: update({...emotionData}) of the document found.
UpdateEmotion(p) ==
  LET l == loc[p]
      d == EmotionData(l)
  IN /\ l.docId # 0
     /\ \E storeOk \in StoreOutcomes :
          IF storeOk /\ ValidEmotionData(d) /\ l.docId \in Ids(EmotionsOf(l.sessionKey))
          THEN /\ emotions' = {e \in emotions : ~(e.sk = l.sessionKey /\ e.id = l.docId)}
                                \cup {EmotionDoc(l.sessionKey, l.docId, d)}
               /\ TagDone(l.sessionKey, l.docId, d)
               /\ Return(p, "storeEmotion", TRUE, "success")
          ELSE /\ Fail(p, "storeEmotion", "Failed to store emotion")
               /\ UNCHANGED <<emotions, lastTag>>
     /\ UNCHANGED usedIds

\* Lines 252-258: add(emotionData) under a freshly generated identity.
AddEmotion(p) ==
  LET l == loc[p]
      d == EmotionData(l)
  IN /\ l.docId = 0
     /\ \/ /\ ValidEmotionData(d)
           /\ \E id \in FreshIds(RecordIds \ usedIds[l.sessionKey]) :
                /\ emotions' = emotions \cup {EmotionDoc(l.sessionKey, id, d)}
                /\ usedIds' = [usedIds EXCEPT ![l.sessionKey] = @ \cup {id}]
                /\ TagDone(l.sessionKey, id, d)
                /\ Return(p, "storeEmotion", TRUE, "success")
        \/ /\ FALSE \in StoreOutcomes \/ ~ValidEmotionData(d)
           /\ Fail(p, "storeEmotion", "Failed to store emotion")
           /\ UNCHANGED <<emotions, usedIds, lastTag>>

\* A write that also refreshes the songs of the session's playlists.
StoreEmotionWriteLive(p) ==
  /\ pc[p] = "tag_write"
  /\ UpdateEmotion(p) \/ AddEmotion(p)
  /\ Finish(p)
  /\ playlists' =
       {[pl EXCEPT !.songs =
           LET docs == OrderById({e \in emotions' :
                                    e.sk = pl.sk /\ e.group \in pl.emotions})
           IN [i \in 1..Len(docs) |->
                 [trackId |-> docs[i].trackId,
                  trackTitle |-> docs[i].trackTitle,
                  artist |-> docs[i].artist, emotion |-> docs[i].group]]] :
          pl \in playlists}
  /\ UNCHANGED <<users, usedPl, clock, upstream, wiped>>

StoreEmotionWrite(p) ==
  /\ pc[p] = "tag_write"
  /\ UpdateEmotion(p) \/ AddEmotion(p)
  /\ Finish(p)
  /\ UNCHANGED <<users, playlists, usedPl, clock, upstream, wiped>>

\* ---------------------------------------------- getEmotions (listEmotions)
\* The first listEmotions(sk) invoked after a delete-all of sk returned.
NoteReader(p, sk) ==
  wiped' = IF wiped[sk].state # "no" /\ wiped[sk].reader = "none"
           THEN [wiped EXCEPT ![sk].reader = p]
           ELSE wiped

ReaderDone(p, sk) ==
  wiped' = IF wiped[sk].reader = p THEN [wiped EXCEPT ![sk] = NoWipe]
           ELSE wiped

\* Lines 267-277: validation and the read of the user document.
GetEmotionsUser(p, sk) ==
  /\ pc[p] = "idle"
  /\ IF sk = Empty
     THEN /\ Fail(p, "getEmotions", "Session key is required")
          /\ UNCHANGED <<pc, loc, wiped>>
     ELSE \E storeOk \in StoreOutcomes :
            IF storeOk
            THEN /\ pc' = [pc EXCEPT ![p] =
                             IF users[sk].exists THEN "list_query" ELSE "list_set"]
                 /\ loc' = [loc EXCEPT ![p] =
                              [op |-> "getEmotions", sessionKey |-> sk,
                               userDoc |-> users[sk]]]
                 /\ NoteReader(p, sk)
                 /\ lastRet' = NoRet
            ELSE /\ Fail(p, "getEmotions", "Failed to fetch emotions")
                 /\ UNCHANGED <<pc, loc, wiped>>
  /\ UNCHANGED <<users, emotions, playlists, usedIds, usedPl, clock, upstream, lastTag>>

\* A handler that goes on to the query without creating the document.
GetEmotionsCreateSkip(p) ==
  /\ pc[p] = "list_set"
  /\ pc' = [pc EXCEPT ![p] = "list_query"]
  /\ lastRet' = NoRet
  /\ UNCHANGED <<users, loc, wiped, emotions, playlists, usedIds, usedPl,
                 clock, upstream, lastTag>>

\* Lines 278-284: set() of a new user document (not a merge).
GetEmotionsCreate(p) ==
  /\ pc[p] = "list_set"
  /\ \E storeOk \in StoreOutcomes :
       IF storeOk
       THEN /\ users' = [users EXCEPT ![loc[p].sessionKey] =
                           [NoDoc EXCEPT !.exists = TRUE, !.createdAt = clock,
                                         !.lastLogin = clock]]
            /\ pc' = [pc EXCEPT ![p] = "list_query"]
            /\ lastRet' = NoRet
            /\ UNCHANGED <<loc, wiped>>
       ELSE /\ Fail(p, "getEmotions", "Failed to fetch emotions")
            /\ Finish(p)
            /\ ReaderDone(p, loc[p].sessionKey)
            /\ UNCHANGED users
  /\ UNCHANGED <<emotions, playlists, usedIds, usedPl, clock, upstream, lastTag>>

\* Lines 286-297: orderBy("timestamp", "desc").get() and the mapping.
GetEmotionsQuery(p) ==
  /\ pc[p] = "list_query"
  /\ \E storeOk \in StoreOutcomes :
       IF storeOk
       THEN Return(p, "getEmotions", TRUE,
                   OrderByTimestampDesc(EmotionsOf(loc[p].sessionKey)))
       ELSE Fail(p, "getEmotions", "Failed to fetch emotions")
  /\ Finish(p)
  /\ ReaderDone(p, loc[p].sessionKey)
  /\ UNCHANGED <<users, emotions, playlists, usedIds, usedPl, clock, upstream, lastTag>>

\* ------------------------------------------- deleteEmotionHistory (delete-all)
\* An enumeration that stops after the first document.
EnumerateEmotionsLimit(sk) ==
  IF EmotionsOf(sk) = {} THEN {} ELSE {MinId(EmotionsOf(sk))}

\* collection("emotions").get(): every document of the collection.
EnumerateEmotions(sk) == Ids(EmotionsOf(sk))

\* Lines 368-377: validation and the enumeration of the collection.
DeleteEmotionHistoryEnum(p, sk) ==
  /\ pc[p] = "idle"
  /\ IF sk = Empty
     THEN /\ Fail(p, "deleteEmotionHistory", "Missing required fields")
          /\ UNCHANGED <<pc, loc, wiped>>
     ELSE \E storeOk \in StoreOutcomes :
            IF storeOk
            THEN /\ pc' = [pc EXCEPT ![p] = "delall_commit"]
                 /\ NoteWriter(p, sk,
                      [op |-> "deleteEmotionHistory", sessionKey |-> sk,
                       snapshot |-> EnumerateEmotions(sk),
                       alone |-> ~\E q \in Slots : InFlight(q, "storeEmotion", sk)],
                      FALSE)
                 /\ lastRet' = NoRet
            ELSE /\ Fail(p, "deleteEmotionHistory",
                         "Failed to delete emotion from database")
                 /\ UNCHANGED <<pc, loc, wiped>>
  /\ UNCHANGED <<users, emotions, playlists, usedIds, usedPl, clock, upstream, lastTag>>

\* A commit that applies only the first delete of the batch.
BatchDeleteFirst(sk, snapshot) ==
  {e \in emotions : ~(e.sk = sk /\ e.id \in snapshot
                      /\ \A j \in snapshot \cap Ids(EmotionsOf(sk)) : e.id <= j)}

\* batch.delete(doc.ref) for every enumerated document, then one commit.
BatchDelete(sk, snapshot) == {e \in emotions : ~(e.sk = sk /\ e.id \in snapshot)}

\* Lines 379-384: the batch commit, which applies all deletes or none.
DeleteEmotionHistoryCommit(p) ==
  LET sk == loc[p].sessionKey
  IN /\ pc[p] = "delall_commit"
     /\ \E storeOk \in StoreOutcomes :
          IF storeOk
          THEN /\ emotions' = BatchDelete(sk, loc[p].snapshot)
               /\ lastTag' = [lastTag EXCEPT ![sk] = NoTag]
               /\ wiped' = [wiped EXCEPT ![sk] =
                              [state |-> IF loc[p].alone THEN "clean" ELSE "raced",
                               reader |-> "none",
                               removed |-> Cardinality(emotions \ BatchDelete(sk, loc[p].snapshot))]]
               /\ Return(p, "deleteEmotionHistory", TRUE, "success")
          ELSE /\ Fail(p, "deleteEmotionHistory",
                       "Failed to delete emotion from database")
               /\ UNCHANGED <<emotions, lastTag, wiped>>
     /\ Finish(p)
     /\ UNCHANGED <<users, playlists, usedIds, usedPl, clock, upstream>>

\* ------------------------------------------------ deleteEmotion (delete-one)
\* A delete that removes every record of the session.
DeleteEmotionAll(p, sk, emotionId) ==
  /\ pc[p] = "idle"
  /\ IF sk = Empty \/ emotionId = 0
     THEN /\ Fail(p, "deleteEmotion", "Missing required fields")
          /\ UNCHANGED <<emotions, lastTag, wiped>>
     ELSE \E storeOk \in StoreOutcomes :
            IF storeOk
            THEN /\ emotions' = {e \in emotions : e.sk # sk}
                 /\ lastTag' = [lastTag EXCEPT ![sk] = NoTag]
                 /\ wiped' = [wiped EXCEPT ![sk] = NoWipe]
                 /\ Return(p, "deleteEmotion", TRUE, "success")
            ELSE /\ Fail(p, "deleteEmotion", "Failed to delete emotion")
                 /\ UNCHANGED <<emotions, lastTag, wiped>>
  /\ UNCHANGED <<users, playlists, usedIds, usedPl, clock, upstream, pc, loc>>

\* Lines 391-407: one delete() by document identity; 0 is a missing id.
DeleteEmotion(p, sk, emotionId) ==
  /\ pc[p] = "idle"
  /\ IF sk = Empty \/ emotionId = 0
     THEN /\ Fail(p, "deleteEmotion", "Missing required fields")
          /\ UNCHANGED <<emotions, lastTag, wiped>>
     ELSE \E storeOk \in StoreOutcomes :
            IF storeOk
            THEN /\ emotions' = {e \in emotions : ~(e.sk = sk /\ e.id = emotionId)}
                 /\ lastTag' = [lastTag EXCEPT ![sk] = NoTag]
                 /\ wiped' = [wiped EXCEPT ![sk] = NoWipe]
                 /\ Return(p, "deleteEmotion", TRUE, "success")
            ELSE /\ Fail(p, "deleteEmotion", "Failed to delete emotion")
                 /\ UNCHANGED <<emotions, lastTag, wiped>>
  /\ UNCHANGED <<users, playlists, usedIds, usedPl, clock, upstream, pc, loc>>

\* ------------------------------------------------------------ deleteAccount
\* Lines 409-423: one delete() of the user document.
DeleteAccount(p, sk) ==
  /\ pc[p] = "idle"
  /\ IF sk = Empty
     THEN /\ Fail(p, "deleteAccount", "Missing required fields")
          /\ UNCHANGED <<users, wiped>>
     ELSE \E storeOk \in StoreOutcomes :
            IF storeOk
            THEN /\ users' = [users EXCEPT ![sk] = NoDoc]
                 /\ wiped' = [wiped EXCEPT ![sk] = NoWipe]
                 /\ Return(p, "deleteAccount", TRUE, "success")
            ELSE /\ Fail(p, "deleteAccount", "Failed to delete account")
                 /\ UNCHANGED <<users, wiped>>
  /\ UNCHANGED <<emotions, playlists, usedIds, usedPl, clock, upstream, pc, loc, lastTag>>

\* ------------------------------------------- createPlaylists (buildPlaylist)
Song(e) ==
  [trackId |-> e.trackId, trackTitle |-> e.trackTitle, artist |-> e.artist,
   emotion |-> e.group]

Songs(docs) == [i \in 1..Len(docs) |-> Song(docs[i])]

\* A query that ignores the filter.
GroupInAny(sk, filter) == EmotionsOf(sk)

\* where("group", "in", emotions): set membership on the group field.
GroupIn(sk, filter) == {e \in EmotionsOf(sk) : e.group \in filter}

\* Lines 496-510: validation, the membership query, the empty-result check.
CreatePlaylistsQuery(p, sk, group, name, filter) ==
  /\ pc[p] = "idle"
  /\ IF sk = Empty \/ group = Empty \/ filter = {}
     THEN /\ Fail(p, "createPlaylists", "Missing sessionkey or emotion")
          /\ UNCHANGED <<pc, loc, wiped>>
     ELSE \E storeOk \in StoreOutcomes :
            IF storeOk /\ GroupIn(sk, filter) # {}
            THEN /\ pc' = [pc EXCEPT ![p] = "pl_add"]
                 /\ loc' = [loc EXCEPT ![p] =
                              [op |-> "createPlaylists", sessionKey |-> sk,
                               group |-> group, name |-> name,
                               emotions |-> filter,
                               docs |-> OrderById(GroupIn(sk, filter))]]
                 /\ wiped' = [wiped EXCEPT ![sk] = NoWipe]
                 /\ lastRet' = NoRet
            ELSE /\ Fail(p, "createPlaylists", "Failed to create the playlist")
                 /\ UNCHANGED <<pc, loc, wiped>>
  /\ UNCHANGED <<users, emotions, playlists, usedIds, usedPl, clock, upstream, lastTag>>

PlaylistData(l) ==
  [name |-> l.name, group |-> l.group, emotions |-> l.emotions,
   songs |-> Songs(l.docs), createdAt |-> clock]

PlaylistDoc(sk, id, d) ==
  [sk |-> sk, id |-> id, name |-> d.name, group |-> d.group,
   emotions |-> d.emotions, songs |-> d.songs, createdAt |-> d.createdAt]

\* Lines 511-529: the snapshot of the songs, add(playlistData), the answer.
CreatePlaylistsAdd(p) ==
  LET l == loc[p]
      d == PlaylistData(l)
  IN /\ pc[p] = "pl_add"
     /\ \/ /\ ValidDocument({d.name, d.group})
           /\ \E id \in FreshIds(PlaylistIds \ usedPl) :
                /\ playlists' = playlists \cup {PlaylistDoc(l.sessionKey, id, d)}
                /\ usedPl' = usedPl \cup {id}
                /\ Return(p, "createPlaylists", TRUE, [playlistId |-> d.group])
        \/ /\ FALSE \in StoreOutcomes \/ ~ValidDocument({d.name, d.group})
           /\ Fail(p, "createPlaylists", "Failed to create the playlist")
           /\ UNCHANGED <<playlists, usedPl>>
     /\ Finish(p)
     /\ UNCHANGED <<users, emotions, usedIds, clock, upstream, lastTag, wiped>>

\* -------------------------------------------------------- fetchPlaylistname
PlaylistName(pl) == [id |-> pl.id, name |-> pl.name]

PlaylistNames(docs) == [i \in 1..Len(docs) |-> PlaylistName(docs[i])]

\* Lines 536-560: one get() of the playlists sub-collection.
FetchPlaylistname(p, sk) ==
  /\ pc[p] = "idle"
  /\ IF sk = Empty
     THEN /\ Fail(p, "fetchPlaylistname", "Session Key Required")
          /\ UNCHANGED wiped
     ELSE \E storeOk \in StoreOutcomes :
            IF storeOk
            THEN /\ Return(p, "fetchPlaylistname", TRUE,
                           PlaylistNames(OrderById(PlaylistsOf(sk))))
                 /\ wiped' = [wiped EXCEPT ![sk] = NoWipe]
            ELSE /\ Fail(p, "fetchPlaylistname", "Failed to fetch playlist names")
                 /\ UNCHANGED wiped
  /\ UNCHANGED <<users, emotions, playlists, usedIds, usedPl, clock, upstream, pc, loc,
                 lastTag>>

\* ------------------------------------------------- lastfmAuth (authenticate)
\* A handler that goes on when the answer carries no session key.
LastfmAuthFetchUnchecked(p, username, password) ==
  /\ pc[p] = "idle"
  /\ IF username = Empty \/ password = Empty
     THEN /\ Fail(p, "lastfmAuth", "Username and password are required")
          /\ UNCHANGED <<pc, loc>>
     ELSE IF upstream.auth.kind = "session"
          THEN /\ pc' = [pc EXCEPT ![p] = "auth_set"]
               /\ loc' = [loc EXCEPT ![p] =
                            [op |-> "lastfmAuth",
                             sessionKey |-> IF upstream.auth.key = Absent
                                            THEN "SK1" ELSE upstream.auth.key,
                             name |-> upstream.auth.name]]
               /\ lastRet' = NoRet
          ELSE /\ Fail(p, "lastfmAuth", "Authentication failed")
               /\ UNCHANGED <<pc, loc>>
  /\ UNCHANGED <<users, emotions, playlists, usedIds, usedPl, clock, upstream,
                 lastTag, wiped>>

\* Lines 75-114: validation, the signed request, the checks of the answer.
LastfmAuthFetch(p, username, password) ==
  /\ pc[p] = "idle"
  /\ IF username = Empty \/ password = Empty
     THEN /\ Fail(p, "lastfmAuth", "Username and password are required")
          /\ UNCHANGED <<pc, loc>>
     ELSE IF upstream.auth.kind = "session" /\ upstream.auth.key # Absent
          THEN /\ pc' = [pc EXCEPT ![p] = "auth_set"]
               /\ loc' = [loc EXCEPT ![p] =
                            [op |-> "lastfmAuth",
                             sessionKey |-> upstream.auth.key,
                             name |-> upstream.auth.name]]
               /\ lastRet' = NoRet
          ELSE /\ Fail(p, "lastfmAuth", "Authentication failed")
               /\ UNCHANGED <<pc, loc>>
  /\ UNCHANGED <<users, emotions, playlists, usedIds, usedPl, clock, upstream, lastTag,
                 wiped>>

\* A handler that answers without waiting for the outcome of the write.
LastfmAuthSetUnawaited(p) ==
  LET l == loc[p]
  IN /\ pc[p] = "auth_set"
     /\ \E storeOk \in StoreOutcomes :
          /\ IF storeOk /\ ValidDocument({l.name})
             THEN users' = [users EXCEPT ![l.sessionKey] =
                              [NoDoc EXCEPT !.exists = TRUE, !.username = l.name,
                                            !.lastLogin = clock]]
             ELSE UNCHANGED users
          /\ Return(p, "lastfmAuth", TRUE,
                    [sessionKey |-> l.sessionKey, username |-> l.name])
     /\ Finish(p)
     /\ UNCHANGED <<emotions, playlists, usedIds, usedPl, clock, upstream,
                    lastTag, wiped>>

\* Lines 116-128: set() of the session document (not a merge), the answer.
LastfmAuthSet(p) ==
  LET l == loc[p]
  IN /\ pc[p] = "auth_set"
     /\ \E storeOk \in StoreOutcomes :
          IF storeOk /\ ValidDocument({l.name})
          THEN /\ users' = [users EXCEPT ![l.sessionKey] =
                              [NoDoc EXCEPT !.exists = TRUE, !.username = l.name,
                                            !.lastLogin = clock]]
               /\ Return(p, "lastfmAuth", TRUE,
                         [sessionKey |-> l.sessionKey, username |-> l.name])
          ELSE /\ Fail(p, "lastfmAuth", "Authentication failed")
               /\ UNCHANGED users
     /\ Finish(p)
     /\ UNCHANGED <<emotions, playlists, usedIds, usedPl, clock, upstream, lastTag, wiped>>

\* ------------------------------------------ lastfmGetUserInfo (fetchUserInfo)
\* The Last.fm service comes to answer user.getInfo differently.
UpstreamUserChange ==
  /\ \E response \in UserResponses \ {upstream.user} :
       upstream' = [upstream EXCEPT !.user = response]
  /\ lastRet' = NoRet
  /\ UNCHANGED <<users, emotions, playlists, usedIds, usedPl, clock, pc, loc,
                 lastTag, wiped>>

\* Lines 162-190: validation, the user.getInfo request, the checks of the
\* answer, and the answer handed to the caller. The handler reads and writes
\* no document.
LastfmGetUserInfo(p, sessionKey) ==
  /\ pc[p] = "idle"
  /\ IF sessionKey = Empty
     THEN Fail(p, "lastfmGetUserInfo", "Session key is required")
     ELSE IF upstream.user.kind = "user"
          THEN Return(p, "lastfmGetUserInfo", TRUE,
                      [user |-> [realname |-> upstream.user.realname]])
          ELSE Fail(p, "lastfmGetUserInfo", "Failed to fetch user info")
  /\ UNCHANGED <<users, emotions, playlists, usedIds, usedPl, clock, upstream,
                 pc, loc, lastTag, wiped>>

\* ------------------------------------------------- firstLogin (ensureProfile)
\* A real name that passes the truthiness test of lines 430 and 467.
Populated(realname) == realname \notin {Absent, Null, Empty}

\* Lines 425-432: the reference to users/{uid}, get(), and the answer when
\* the document already carries a real name. No input is validated; doc()
\* throws on an empty path, inside the try block.
FirstLoginGet(p, sessionKey, uid) ==
  /\ pc[p] = "idle"
  /\ IF uid = Empty
     THEN /\ Fail(p, "firstLogin", "Failed to fetch real name")
          /\ UNCHANGED <<pc, loc>>
     ELSE \E storeOk \in StoreOutcomes :
            IF ~storeOk
            THEN /\ Fail(p, "firstLogin", "Failed to fetch real name")
                 /\ UNCHANGED <<pc, loc>>
            ELSE IF users[uid].exists /\ Populated(users[uid].realname)
                 THEN /\ Return(p, "firstLogin", TRUE, "User info already exists")
                      /\ UNCHANGED <<pc, loc>>
                 ELSE /\ pc' = [pc EXCEPT ![p] = "first_fetch"]
                      /\ loc' = [loc EXCEPT ![p] =
                                   [op |-> "firstLogin", sessionKey |-> sessionKey,
                                    uid |-> uid, realname |-> Absent]]
                      /\ lastRet' = NoRet
  /\ UNCHANGED <<users, emotions, playlists, usedIds, usedPl, clock, upstream,
                 lastTag, wiped>>

\* Lines 433-440: the user.getInfo request and realname = ... || null.
FirstLoginFetch(p) ==
  /\ pc[p] = "first_fetch"
  /\ IF upstream.user.kind \in {"error", "throw"}
     THEN /\ Fail(p, "firstLogin", "Failed to fetch real name")
          /\ Finish(p)
     ELSE /\ pc' = [pc EXCEPT ![p] = "first_set"]
          /\ loc' = [loc EXCEPT ![p].realname =
                       IF Populated(upstream.user.realname)
                       THEN upstream.user.realname ELSE Null]
          /\ lastRet' = NoRet
  /\ UNCHANGED <<users, emotions, playlists, usedIds, usedPl, clock, upstream,
                 lastTag, wiped>>

\* A write that replaces the document instead of merging into it.
FirstLoginSetReplace(p) ==
  LET l == loc[p]
  IN /\ pc[p] = "first_set"
     /\ \E storeOk \in StoreOutcomes :
          IF storeOk
          THEN /\ users' = [users EXCEPT ![l.uid] =
                              [NoDoc EXCEPT !.exists = TRUE,
                                            !.realname = l.realname,
                                            !.infoCreatedAt = clock]]
               /\ Return(p, "firstLogin", TRUE, "success")
          ELSE /\ Fail(p, "firstLogin", "Failed to fetch real name")
               /\ UNCHANGED users
     /\ Finish(p)
     /\ UNCHANGED <<emotions, playlists, usedIds, usedPl, clock, upstream,
                    lastTag, wiped>>

\* Lines 442-451: set({userInfo: {realname, createdAt}}, {merge: true}).
FirstLoginSet(p) ==
  LET l == loc[p]
  IN /\ pc[p] = "first_set"
     /\ \E storeOk \in StoreOutcomes :
          IF storeOk
          THEN /\ users' = [users EXCEPT ![l.uid] =
                              [@ EXCEPT !.exists = TRUE,
                                        !.realname = l.realname,
                                        !.infoCreatedAt = clock]]
               /\ Return(p, "firstLogin", TRUE, "success")
          ELSE /\ Fail(p, "firstLogin", "Failed to fetch real name")
               /\ UNCHANGED users
     /\ Finish(p)
     /\ UNCHANGED <<emotions, playlists, usedIds, usedPl, clock, upstream,
                    lastTag, wiped>>

\* ------------------------------------------------------------ fetchRealname
\* Lines 458-481: get() of users/{sessionKey} and the answer, which carries
\* the real name or reports that there is none.
FetchRealname(p, sessionKey) ==
  /\ pc[p] = "idle"
  /\ IF sessionKey = Empty
     THEN Fail(p, "fetchRealname", "Failed to fetch real name")
     ELSE \E storeOk \in StoreOutcomes :
            IF ~storeOk
            THEN Fail(p, "fetchRealname", "Failed to fetch real name")
            ELSE IF users[sessionKey].exists /\ Populated(users[sessionKey].realname)
                 THEN Return(p, "fetchRealname", TRUE,
                             [success |-> TRUE,
                              realname |-> users[sessionKey].realname])
                 ELSE Return(p, "fetchRealname", TRUE,
                             [success |-> FALSE, realname |-> Absent])
  /\ UNCHANGED <<users, emotions, playlists, usedIds, usedPl, clock, upstream,
                 pc, loc, lastTag, wiped>>

\* -------------------------------------------------------------- signRequest
\* Strings are sequences of code units. The parameter names and values the
\* signer is tried on, and a parameter object as its entries in insertion
\* order, no name twice.
ParamNames == {<<1>>, <<2>>, <<1, 2>>}
ParamValues == {<<>>, <<1>>, <<2>>}

ParamObjects ==
  UNION {{ps \in [1..n -> [name : ParamNames, value : ParamValues]] :
            \A i, j \in 1..n : i # j => ps[i].name # ps[j].name} :
         n \in 0..MaxParams}

\* Line 35.
API_SECRET == <<3>>

\* The order of Array.prototype.sort() without a comparator: code unit by
\* code unit, a proper prefix first.
RECURSIVE Precedes(_, _)
Precedes(x, y) ==
  IF x = <<>> THEN y # <<>>
  ELSE IF y = <<>> THEN FALSE
  ELSE IF Head(x) # Head(y) THEN Head(x) < Head(y)
  ELSE Precedes(Tail(x), Tail(y))

\* Object.keys(params): the names in insertion order.
ObjectKeys(params) == [i \in 1..Len(params) |-> params[i].name]

RECURSIVE Sort(_)
Sort(keys) ==
  IF keys = <<>> THEN <<>>
  ELSE LET i == CHOOSE i \in 1..Len(keys) :
                  \A j \in 1..Len(keys) : j # i => Precedes(keys[i], keys[j])
       IN <<keys[i]>> \o Sort(SubSeq(keys, 1, i - 1)
                               \o SubSeq(keys, i + 1, Len(keys)))

\* params[key]
Get(params, key) ==
  params[CHOOSE i \in 1..Len(params) : params[i].name = key].value

\* Lines 199-203: rawSig += key + params[key], for each key in turn.
RECURSIVE RawSig(_, _)
RawSig(params, keys) ==
  IF keys = <<>> THEN <<>>
  ELSE Head(keys) \o Get(params, Head(keys)) \o RawSig(params, Tail(keys))

\* The MD5 digest, modelled as an injective function of the string hashed.
Md5(str) == [md5 |-> str]

\* A signer that takes the names in the order of the object's entries.
signRequestUnsorted(params) ==
  Md5(RawSig(params, ObjectKeys(params)) \o API_SECRET)

\* Lines 197-207.
signRequest(params) ==
  Md5(RawSig(params, Sort(ObjectKeys(params))) \o API_SECRET)

\* One call of the signer, on the parameter object the slot holds.
SignRequestCall(p) ==
  /\ pc[p] = "sign_call"
  /\ pc' = [pc EXCEPT ![p] = "sign_done"]
  /\ loc' = [loc EXCEPT ![p].sig = signRequest(loc[p].params)]
  /\ lastRet' = NoRet
  /\ UNCHANGED <<users, emotions, playlists, usedIds, usedPl, clock, upstream,
                 lastTag, wiped>>

\* ------------------------------------- lastfmSearchforTracks (searchTracks)
\* The tracks track.search can list, and what it can answer: an error
\* envelope, a request that throws, a body without a track list, or a track
\* list.
Queries == {"q"}
Artworks == {"art"}
SearchTracks == [name : {"x", "y"}, artist : Artists, image : {Absent, "thumb"}]

TrackLists == UNION {[1..n -> SearchTracks] : n \in 0..MaxTracks}

SearchResponses ==
  {[kind |-> "error", tracks |-> <<>>], [kind |-> "throw", tracks |-> <<>>],
   [kind |-> "noresults", tracks |-> <<>>]}
  \cup {[kind |-> "results", tracks |-> ts] : ts \in TrackLists}

\* What track.getInfo can do for one track: throw, answer without album
\* artwork, or answer with artwork.
InfoOutcomes == {"throw", "noimage"} \cup Artworks

\* Lines 314-330: validation, the track.search request, and
\* tracks = response.data?.results?.trackmatches?.track || [].
\* primary keeps the list as it was answered, outcomes what each lookup did.
LastfmSearchStart(p, query, response) ==
  /\ pc[p] = "idle"
  /\ IF query = Empty
     THEN /\ Fail(p, "lastfmSearchforTracks", "Query is required")
          /\ UNCHANGED <<pc, loc>>
     ELSE IF response.kind = "throw"
          THEN /\ Fail(p, "lastfmSearchforTracks", "Failed to search tracks")
               /\ UNCHANGED <<pc, loc>>
          ELSE /\ pc' = [pc EXCEPT ![p] = IF response.tracks = <<>>
                                          THEN "search_return"
                                          ELSE "search_info"]
               /\ loc' = [loc EXCEPT ![p] =
                            [op |-> "lastfmSearchforTracks",
                             kind |-> response.kind,
                             tracks |-> response.tracks,
                             primary |-> response.tracks,
                             next |-> 1, outcomes |-> <<>>]]
               /\ lastRet' = NoRet
  /\ UNCHANGED <<users, emotions, playlists, usedIds, usedPl, clock, upstream,
                 lastTag, wiped>>

\* A loop without the inner try block: a lookup that throws ends the search.
LastfmSearchInfoStrict(p) ==
  LET l == loc[p]
  IN /\ pc[p] = "search_info"
     /\ \E outcome \in InfoOutcomes :
          IF outcome = "throw"
          THEN /\ Fail(p, "lastfmSearchforTracks", "Failed to search tracks")
               /\ Finish(p)
          ELSE /\ loc' = [loc EXCEPT
                            ![p].tracks[l.next].image =
                               IF outcome \in Artworks THEN outcome ELSE @,
                            ![p].next = @ + 1,
                            ![p].outcomes = Append(@, outcome)]
               /\ pc' = [pc EXCEPT ![p] = IF l.next = Len(l.tracks)
                                          THEN "search_return"
                                          ELSE "search_info"]
               /\ lastRet' = NoRet
     /\ UNCHANGED <<users, emotions, playlists, usedIds, usedPl, clock, upstream,
                    lastTag, wiped>>

\* Lines 331-349: one turn of the loop, the track.getInfo request for the
\* next track inside its own try block.
LastfmSearchInfo(p) ==
  LET l == loc[p]
  IN /\ pc[p] = "search_info"
     /\ \E outcome \in InfoOutcomes :
          loc' = [loc EXCEPT
                    ![p].tracks[l.next].image =
                       IF outcome \in Artworks THEN outcome ELSE @,
                    ![p].next = @ + 1,
                    ![p].outcomes = Append(@, outcome)]
     /\ pc' = [pc EXCEPT ![p] = IF l.next = Len(l.tracks)
                                THEN "search_return"
                                ELSE "search_info"]
     /\ lastRet' = NoRet
     /\ UNCHANGED <<users, emotions, playlists, usedIds, usedPl, clock, upstream,
                    lastTag, wiped>>

\* Lines 351-362: the checks of the primary answer, and the answer.
LastfmSearchReturn(p) ==
  LET l == loc[p]
  IN /\ pc[p] = "search_return"
     /\ IF l.kind = "results"
        THEN Return(p, "lastfmSearchforTracks", TRUE, l.tracks)
        ELSE Fail(p, "lastfmSearchforTracks", "Failed to search tracks")
     /\ Finish(p)
     /\ UNCHANGED <<users, emotions, playlists, usedIds, usedPl, clock, upstream,
                    lastTag, wiped>>

\* ------------------------------------------------------------ request data
StoreEmotionData(keys, tracks, labels, groups, broadgroups) ==
  [sessionKey : keys, trackId : tracks, trackTitle : Titles, artist : Artists,
   group : groups, broadgroup : broadgroups, emotion : labels]

\* Requests in which one required field is missing.
MissingField(data) ==
  {[data EXCEPT !.sessionKey = Empty], [data EXCEPT !.trackId = Empty],
   [data EXCEPT !.trackTitle = Empty], [data EXCEPT !.artist = Empty],
   [data EXCEPT !.emotion = Empty]}

\* ------------------------------------------------------------ specification
\* Concurrent invocations of the emotion handlers on one session, all within
\* one tick of the clock.
Next ==
  \E p \in Slots :
    \/ \E data \in StoreEmotionData({"SK1"}, TrackIds, {"happy"}, {"joy"},
                                    BroadGroups) :
         StoreEmotionLookup(p, data)
    \/ StoreEmotionWrite(p)
    \/ GetEmotionsUser(p, "SK1")
    \/ GetEmotionsCreate(p)
    \/ GetEmotionsQuery(p)
    \/ DeleteEmotionHistoryEnum(p, "SK1")
    \/ DeleteEmotionHistoryCommit(p)
    \/ \E emotionId \in RecordIds : DeleteEmotion(p, "SK1", emotionId)

Spec == Init /\ [][Next]_vars

\* Invocations of the emotion handlers one after the other, on one session.
NextSeq ==
  \/ Tick
  \/ \E data \in StoreEmotionData({"SK1"}, TrackIds, EmotionLabels,
                                  {"joy", Undefined},
                                  BroadGroups \cup {Undefined}) :
       StoreEmotionLookup("a", data)
  \/ \E data \in StoreEmotionData({"SK1"}, {"T1"}, {"happy"}, {"joy"},
                                  BroadGroups) :
       \E bad \in MissingField(data) : StoreEmotionLookup("a", bad)
  \/ StoreEmotionWrite("a")
  \/ \E sk \in {"SK1", Empty} : GetEmotionsUser("a", sk)
  \/ GetEmotionsCreate("a")
  \/ GetEmotionsQuery("a")
  \/ \E sk \in {"SK1", Empty} : DeleteEmotionHistoryEnum("a", sk)
  \/ DeleteEmotionHistoryCommit("a")
  \/ \E sk \in {"SK1", Empty}, emotionId \in RecordIds \cup {0} :
       DeleteEmotion("a", sk, emotionId)

SpecSeq == Init /\ [][NextSeq]_vars

\* Invocations of the emotion handlers one after the other, on two sessions.
NextList ==
  \/ Tick
  \/ \E data \in StoreEmotionData({"SK1"}, TrackIds, {"happy"}, {"joy"},
                                  BroadGroups)
                  \cup StoreEmotionData({"SK2"}, {"T1"}, {"happy"}, {"joy"},
                                        BroadGroups) :
       StoreEmotionLookup("a", data)
  \/ StoreEmotionWrite("a")
  \/ GetEmotionsUser("a", "SK1")
  \/ GetEmotionsCreate("a")
  \/ GetEmotionsQuery("a")
  \/ DeleteEmotionHistoryEnum("a", "SK1")
  \/ DeleteEmotionHistoryCommit("a")
  \/ \E emotionId \in RecordIds : DeleteEmotion("a", "SK1", emotionId)

SpecList == Init /\ [][NextList]_vars

\* Invocations of tagTrack, buildPlaylist, fetchPlaylistname, listEmotions
\* and deleteAccount one after the other, on one session, all within one
\* tick of the clock.
NextPlaylist ==
  \/ \E data \in StoreEmotionData({"SK1"}, TrackIds, {"happy"}, Groups,
                                  BroadGroups) :
       StoreEmotionLookup("a", data)
  \/ StoreEmotionWrite("a")
  \/ \E name \in Names \cup {Undefined}, filter \in SUBSET Groups :
       CreatePlaylistsQuery("a", "SK1", "joy", name, filter)
  \/ CreatePlaylistsAdd("a")
  \/ FetchPlaylistname("a", "SK1")
  \/ GetEmotionsUser("a", "SK1")
  \/ GetEmotionsCreate("a")
  \/ GetEmotionsQuery("a")
  \/ DeleteAccount("a", "SK1")

SpecPlaylist == Init /\ [][NextPlaylist]_vars

\* Concurrent invocations of authenticate and deleteAccount against a
\* Last.fm service whose answer varies.
NextAuth ==
  \/ Tick
  \/ UpstreamChange
  \/ \E p \in Slots :
       \/ \E username \in Usernames \cup {Empty},
             password \in Passwords \cup {Empty} :
            LastfmAuthFetch(p, username, password)
       \/ LastfmAuthSet(p)
       \/ \E sk \in Keys : DeleteAccount(p, sk)

SpecAuth == Init /\ [][NextAuth]_vars

\* Invocations of authenticate, fetchUserInfo, ensureProfile, fetchRealname
\* and listEmotions one after the other against a Last.fm service that
\* hands out the session SK1 and whose user.getInfo answer varies.
InitProfile ==
  /\ users = [k \in Keys |-> NoDoc]
  /\ emotions = {}
  /\ playlists = {}
  /\ usedIds = [k \in Keys |-> {}]
  /\ usedPl = {}
  /\ clock = 1
  /\ upstream = [auth |-> [kind |-> "session", key |-> "SK1", name |-> "alice"],
                 user |-> [kind |-> "error", realname |-> Absent],
                 faults |-> TRUE]
  /\ pc = [p \in Slots |-> "idle"]
  /\ loc = [p \in Slots |-> NoLoc]
  /\ lastRet = NoRet
  /\ lastTag = [k \in Keys |-> NoTag]
  /\ wiped = [k \in Keys |-> NoWipe]

NextProfile ==
  \/ Tick
  \/ UpstreamUserChange
  \/ \E username \in Usernames : LastfmAuthFetch("a", username, "pw1")
  \/ LastfmAuthSet("a")
  \/ \E sk \in {"SK1", Empty} : LastfmGetUserInfo("a", sk)
  \/ \E sk \in {"SK1"}, uid \in Keys \cup {Empty} : FirstLoginGet("a", sk, uid)
  \/ FirstLoginFetch("a")
  \/ FirstLoginSet("a")
  \/ \E sk \in Keys \cup {Empty} : FetchRealname("a", sk)
  \/ GetEmotionsUser("a", "SK1")
  \/ GetEmotionsCreate("a")
  \/ GetEmotionsQuery("a")

SpecProfile == InitProfile /\ [][NextProfile]_vars

\* Invocations of authenticate, tagTrack and buildPlaylist one after the
\* other, with complete requests and with requests that lack a required
\* input.
IncompleteAuth ==
  {<<u, w>> : u \in Usernames \cup {Empty}, w \in Passwords \cup {Empty}}
    \ (Usernames \X Passwords)

IncompleteStoreEmotion ==
  UNION {MissingField(data) :
           data \in StoreEmotionData({"SK1"}, TrackIds, {"happy"}, {"joy"},
                                     BroadGroups)}

IncompleteCreatePlaylists ==
  {<<sk, g, f>> : sk \in {"SK1", Empty}, g \in {"joy", Empty},
                  f \in SUBSET Groups}
    \ {<<sk, g, f>> : sk \in {"SK1"}, g \in {"joy"},
                      f \in (SUBSET Groups) \ {{}}}

NextValidate ==
  \/ \E username \in Usernames \cup {Empty}, password \in Passwords \cup {Empty} :
       LastfmAuthFetch("a", username, password)
  \/ LastfmAuthSet("a")
  \/ \E data \in StoreEmotionData({"SK1"}, TrackIds, {"happy"}, {"joy"},
                                  BroadGroups)
                  \cup IncompleteStoreEmotion :
       StoreEmotionLookup("a", data)
  \/ StoreEmotionWrite("a")
  \/ \E sk \in {"SK1", Empty}, group \in {"joy", Empty},
        filter \in SUBSET Groups :
       CreatePlaylistsQuery("a", sk, group, "mix", filter)
  \/ CreatePlaylistsAdd("a")

SpecValidate == InitProfile /\ [][NextValidate]_vars

\* Invocations of tagTrack, listEmotions and delete-one one after the other
\* on one session, against a store that rejects no operation for a reason
\* of its own: a call fails only through what the handler does.
InitReliable ==
  /\ users = [k \in Keys |-> NoDoc]
  /\ emotions = {}
  /\ playlists = {}
  /\ usedIds = [k \in Keys |-> {}]
  /\ usedPl = {}
  /\ clock = 1
  /\ upstream = [auth |-> [kind |-> "error", key |-> Absent, name |-> Absent],
                 user |-> [kind |-> "error", realname |-> Absent],
                 faults |-> FALSE]
  /\ pc = [p \in Slots |-> "idle"]
  /\ loc = [p \in Slots |-> NoLoc]
  /\ lastRet = NoRet
  /\ lastTag = [k \in Keys |-> NoTag]
  /\ wiped = [k \in Keys |-> NoWipe]

NextOptional ==
  \/ Tick
  \/ \E data \in StoreEmotionData({"SK1"}, TrackIds, EmotionLabels, {"joy"},
                                  BroadGroups)
                  \cup StoreEmotionData({"SK1"}, TrackIds, EmotionLabels,
                                        {Undefined}, {Undefined}) :
       StoreEmotionLookup("a", data)
  \/ StoreEmotionWrite("a")
  \/ GetEmotionsUser("a", "SK1")
  \/ GetEmotionsCreate("a")
  \/ GetEmotionsQuery("a")
  \/ \E emotionId \in RecordIds : DeleteEmotion("a", "SK1", emotionId)

SpecOptional == InitReliable /\ [][NextOptional]_vars

\* The signer applied to two parameter objects, one per slot.
InitSign ==
  /\ users = [k \in Keys |-> NoDoc]
  /\ emotions = {}
  /\ playlists = {}
  /\ usedIds = [k \in Keys |-> {}]
  /\ usedPl = {}
  /\ clock = 1
  /\ upstream = [auth |-> [kind |-> "error", key |-> Absent, name |-> Absent],
                 user |-> [kind |-> "error", realname |-> Absent],
                 faults |-> TRUE]
  /\ pc = [p \in Slots |-> "sign_call"]
  /\ loc \in [Slots -> [op : {"signRequest"}, params : ParamObjects,
                        sig : {Absent}]]
  /\ lastRet = NoRet
  /\ lastTag = [k \in Keys |-> NoTag]
  /\ wiped = [k \in Keys |-> NoWipe]

NextSign == \E p \in Slots : SignRequestCall(p)

SpecSign == InitSign /\ [][NextSign]_vars

\* The handlers of NextList on two sessions, against a store that rejects
\* no operation for a reason of its own.
SpecDeleteOne == InitReliable /\ [][NextList]_vars

\* Invocations of tagTrack, delete-one, delete-all, listEmotions,
\* authenticate, ensureProfile and buildPlaylist one after the other on one
\* session, all within one tick of the clock.
NextSnapshot ==
  \/ UpstreamUserChange
  \/ \E data \in StoreEmotionData({"SK1"}, {"T1"}, {"happy"}, Groups,
                                  BroadGroups) :
       StoreEmotionLookup("a", data)
  \/ StoreEmotionWrite("a")
  \/ \E emotionId \in RecordIds : DeleteEmotion("a", "SK1", emotionId)
  \/ DeleteEmotionHistoryEnum("a", "SK1")
  \/ DeleteEmotionHistoryCommit("a")
  \/ GetEmotionsUser("a", "SK1")
  \/ GetEmotionsCreate("a")
  \/ GetEmotionsQuery("a")
  \/ LastfmAuthFetch("a", "alice", "pw1")
  \/ LastfmAuthSet("a")
  \/ FirstLoginGet("a", "SK1", "SK1")
  \/ FirstLoginFetch("a")
  \/ FirstLoginSet("a")
  \/ \E filter \in {{"joy"}, {"calm"}} :
       CreatePlaylistsQuery("a", "SK1", "joy", "mix", filter)
  \/ CreatePlaylistsAdd("a")

SpecSnapshot == InitProfile /\ [][NextSnapshot]_vars

\* Invocations of searchTracks one after the other.
NextSearch ==
  \/ \E query \in Queries \cup {Empty}, response \in SearchResponses :
       LastfmSearchStart("a", query, response)
  \/ LastfmSearchInfo("a")
  \/ LastfmSearchReturn("a")

SpecSearch == Init /\ [][NextSearch]_vars

\* ------------------------------------------------------------------ claims
\* Steps of a handler, as seen from outside: slot p answers its caller.
Answers(p, at, op) ==
  pc[p] = at /\ pc'[p] = "idle" /\ lastRet'.op = op

Succeeds(p, at, op) == Answers(p, at, op) /\ lastRet'.ok

WithTrack(recs, trackId) == {e \in recs : e.trackId = trackId}

Range(seq) == {seq[i] : i \in 1..Len(seq)}

\* C1: when tagTrack succeeds twice in sequence for the same session and
\* track, the session holds exactly one record of the track, under the
\* identity the first call left and with the second call's fields, and a
\* following listEmotions returns that record and no other of the track;
\* with two different tracks the session holds one record of each.
C1_TagTwice ==
  [][LET l == loc["a"]
         sk == l.sessionKey
         prev == lastTag[sk]
     IN /\ Succeeds("a", "tag_write", "storeEmotion") =>
             /\ prev.trackId = l.trackId =>
                  WithTrack({e \in emotions' : e.sk = sk}, l.trackId)
                    = {EmotionDoc(sk, prev.id, EmotionData(l))}
             /\ prev.trackId \notin {Empty, l.trackId} =>
                  /\ Cardinality(WithTrack({e \in emotions' : e.sk = sk},
                                           l.trackId)) = 1
                  /\ Cardinality(WithTrack({e \in emotions' : e.sk = sk},
                                           prev.trackId)) = 1
        /\ Succeeds("a", "list_query", "getEmotions") /\ prev.twice =>
             SelectSeq(lastRet'.val, LAMBDA e : e.trackId = prev.trackId)
               = <<EmotionDoc(sk, prev.id, prev.data)>>]_vars

C1_Witness ==
  /\ lastTag["SK1"].twice
  /\ lastRet.op = "getEmotions" /\ lastRet.ok
  /\ Len(lastRet.val) = 1
  /\ lastRet.val[1].emotion = "sad"

\* C2: in every reachable state a session holds at most one record per
\* track id, whatever the interleaving of tagTrack, delete-one and delete-all.
C2_AtMostOnePerTrack ==
  \A sk \in Keys, t \in TrackIds :
    Cardinality(WithTrack(EmotionsOf(sk), t)) <= 1

\* C3: delete-all is atomic towards readers. Its commit is one step that
\* removes every enumerated record, or fails and removes none; and a
\* listEmotions that reads while a delete-all has enumerated but not yet
\* committed returns every enumerated record the collection still holds.
C3_DeleteAllAtomic ==
  [][\A p \in Slots :
       LET sk == loc[p].sessionKey
       IN /\ Answers(p, "delall_commit", "deleteEmotionHistory") =>
               LET enumerated == {e \in EmotionsOf(sk) : e.id \in loc[p].snapshot}
               IN IF lastRet'.ok THEN emotions' = emotions \ enumerated
                                 ELSE emotions' = emotions
          /\ Succeeds(p, "list_query", "getEmotions") =>
               /\ emotions' = emotions
               /\ \A q \in Slots :
                    InFlight(q, "deleteEmotionHistory", sk) =>
                      {e \in EmotionsOf(sk) : e.id \in loc[q].snapshot}
                        \subseteq Range(lastRet'.val)]_vars

C3_Witness ==
  /\ lastRet.op = "deleteEmotionHistory" /\ lastRet.ok
  /\ wiped["SK1"].removed = 2
  /\ \E q \in Slots : pc[q] = "list_query"

C5_ListMaterializesSession ==
  [][LET l == loc["a"]
         sk == l.sessionKey
     IN Succeeds("a", "list_query", "getEmotions") =>
          /\ EmotionsOf(sk) = {} => lastRet'.val = <<>>
          /\ users'[sk].exists
          /\ l.userDoc.exists => users'[sk] = l.userDoc
          /\ ~l.userDoc.exists =>
               users'[sk].createdAt > 0 /\ users'[sk].lastLogin > 0]_vars

C5_Witness ==
  /\ lastRet.op = "getEmotions" /\ lastRet.ok /\ lastRet.val = <<>>
  /\ users["SK1"].exists /\ users["SK1"].createdAt = 2

\* C6: listEmotions answers with exactly the records stored under its
\* session, each once, none of another session, most recent first.
C6_ListAllNewestFirst ==
  [][LET sk == loc["a"].sessionKey
         v == lastRet'.val
     IN Succeeds("a", "list_query", "getEmotions") =>
          /\ Range(v) = EmotionsOf(sk)
          /\ Len(v) = Cardinality(EmotionsOf(sk))
          /\ \A i \in 1..Len(v) : v[i].sk = sk
          /\ \A i, j \in 1..Len(v) :
               i < j => v[i].timestamp >= v[j].timestamp]_vars

C6_Witness ==
  /\ lastRet.op = "getEmotions" /\ lastRet.ok
  /\ Len(lastRet.val) = 2
  /\ lastRet.val[1].timestamp > lastRet.val[2].timestamp
  /\ lastRet.val[1].id < lastRet.val[2].id
  /\ EmotionsOf("SK2") # {}

\* C7: a buildPlaylist with a non-empty filter goes on to add a Playlist
\* only when a record of the session has its group in the filter, and no
\* failing answer adds one; when it succeeds it has added exactly one
\* Playlist under the session, with one song per record whose group is in
\* the filter and with createdAt set.
C7_PlaylistOfMatching ==
  [][LET l == loc["a"]
         sk == l.sessionKey
         matching == {e \in EmotionsOf(sk) : e.group \in l.emotions}
         added == playlists' \ playlists
     IN /\ pc["a"] = "idle" /\ pc'["a"] = "pl_add" =>
             \E e \in emotions : e.sk = loc'["a"].sessionKey
                                 /\ e.group \in loc'["a"].emotions
        /\ lastRet'.op = "createPlaylists" /\ ~lastRet'.ok =>
             playlists' = playlists
        /\ Succeeds("a", "pl_add", "createPlaylists") =>
             /\ playlists \subseteq playlists'
             /\ Cardinality(added) = 1
             /\ \A pl \in added :
                  /\ pl.sk = sk
                  /\ Len(pl.songs) = Cardinality(matching)
                  /\ Range(pl.songs) =
                       {[trackId |-> e.trackId, trackTitle |-> e.trackTitle,
                         artist |-> e.artist, emotion |-> e.group] :
                          e \in matching}
                  /\ pl.createdAt = clock]_vars

C7_Witness ==
  /\ lastRet.op = "createPlaylists" /\ lastRet.ok
  /\ Cardinality(EmotionsOf("SK1")) = 2
  /\ \E pl \in PlaylistsOf("SK1") : Len(pl.songs) = 1 /\ pl.createdAt > 0

\* C8: when Last.fm answers with a session {key K, name U}, authenticate
\* goes on with K and U, and when it succeeds it answers
\* {sessionKey K, username U} and the store then holds a Session document
\* at K with username U and lastLogin set.
C8_AuthStoresSession ==
  [][\A p \in Slots :
       /\ pc[p] = "idle" /\ pc'[p] = "auth_set" =>
            /\ loc'[p].sessionKey = upstream.auth.key
            /\ loc'[p].name = upstream.auth.name
       /\ Succeeds(p, "auth_set", "lastfmAuth") =>
            /\ lastRet'.val = [sessionKey |-> loc[p].sessionKey,
                              username |-> loc[p].name]
            /\ users'[loc[p].sessionKey].exists
            /\ users'[loc[p].sessionKey].username = loc[p].name
            /\ users'[loc[p].sessionKey].lastLogin = clock]_vars

C8_Witness ==
  /\ lastRet.op = "lastfmAuth" /\ lastRet.ok
  /\ lastRet.val = [sessionKey |-> "SK1", username |-> "alice"]
  /\ users["SK1"].exists /\ users["SK1"].username = "alice"
  /\ users["SK1"].lastLogin = 2

\* C9: authenticate goes on to the Session write only when Last.fm answered
\* with a session that has a key; an authenticate that fails leaves every
\* Session document as it was; and one that succeeds has written the
\* Session document in the step in which it answers.
C9_AuthSuccessOnlyAfterWrite ==
  [][/\ \A p \in Slots :
          pc[p] = "idle" /\ pc'[p] = "auth_set" =>
            upstream.auth.kind = "session" /\ upstream.auth.key \in Keys
     /\ lastRet'.op = "lastfmAuth" /\ ~lastRet'.ok => users' = users
     /\ lastRet'.op = "lastfmAuth" /\ lastRet'.ok =>
          \E p \in Slots :
            /\ pc[p] = "auth_set" /\ pc'[p] = "idle"
            /\ users' = [users EXCEPT ![loc[p].sessionKey] =
                           [NoDoc EXCEPT !.exists = TRUE,
                                         !.username = loc[p].name,
                                         !.lastLogin = clock]]]_vars

C9_Witness ==
  /\ lastRet.op = "lastfmAuth" /\ ~lastRet.ok
  /\ lastRet.val = "Authentication failed"
  /\ upstream.auth.kind = "session" /\ upstream.auth.key = "SK1"
  /\ upstream.auth.name = "alice"
  /\ ~users["SK1"].exists
  /\ \A p \in Slots : pc[p] = "idle"

\* C10: when deleteAccount has answered success for a session that had a
\* Session document, the store holds no Session document, no Emotion Record
\* and no Playlist of that session.
C10_DeleteAccountCascades ==
  [][lastRet'.op = "deleteAccount" /\ lastRet'.ok =>
       \A sk \in Keys :
         users[sk].exists /\ ~users'[sk].exists =>
           /\ {e \in emotions' : e.sk = sk} = {}
           /\ {pl \in playlists' : pl.sk = sk} = {}]_vars

\* C11: when user.getInfo answers fetchUserInfo(S) with a user object, the
\* call leaves the session document at S with username, realname and
\* lastLogin written; when it answers with an error envelope the call fails
\* and the session document is unchanged.
C11_FetchUserInfoUpserts ==
  [][lastRet'.op = "lastfmGetUserInfo" =>
       IF lastRet'.ok
       THEN \E sk \in Keys :
              /\ users'[sk].exists
              /\ users'[sk].username # Absent
              /\ users'[sk].realname = lastRet'.val.user.realname
              /\ users'[sk].lastLogin = clock
       ELSE users' = users]_vars

\* C12: ensureProfile(sessionKey, uid). A call that finds a populated
\* userInfo.realname in the document at uid answers at once, without going
\* on to the external call or to a write, and the store is unchanged.
\* Otherwise, when its write succeeds, userInfo.realname and
\* userInfo.createdAt of the document at uid are set and nothing else of the
\* store changes: not the other fields of that document, not any other
\* document, not the emotion records, not the playlists.
C12_EnsureProfileFrame ==
  [][LET l == loc["a"]
     IN /\ pc["a"] = "idle" /\ pc'["a"] = "first_fetch" =>
             ~(users[loc'["a"].uid].exists
               /\ Populated(users[loc'["a"].uid].realname))
        /\ pc["a"] = "idle" /\ lastRet'.op = "firstLogin" =>
             /\ pc'["a"] = "idle"
             /\ users' = users /\ emotions' = emotions /\ playlists' = playlists
        /\ pc["a"] = "first_fetch" =>
             users' = users /\ emotions' = emotions /\ playlists' = playlists
        /\ Answers("a", "first_set", "firstLogin") =>
             /\ emotions' = emotions /\ playlists' = playlists
             /\ \A k \in Keys \ {l.uid} : users'[k] = users[k]
             /\ users'[l.uid].username = users[l.uid].username
             /\ users'[l.uid].lastLogin = users[l.uid].lastLogin
             /\ users'[l.uid].createdAt = users[l.uid].createdAt
             /\ IF lastRet'.ok
                THEN /\ users'[l.uid].exists
                     /\ users'[l.uid].realname = l.realname
                     /\ users'[l.uid].infoCreatedAt = clock
                ELSE users'[l.uid] = users[l.uid]]_vars

C12_Witness ==
  /\ lastRet.op = "firstLogin" /\ lastRet.ok /\ lastRet.val = "success"
  /\ users["SK1"].username = "alice" /\ users["SK1"].lastLogin = 1
  /\ users["SK1"].createdAt = 0
  /\ users["SK1"].realname = "Alice A" /\ users["SK1"].infoCreatedAt = 2
  /\ users["SK2"].realname = Null

\* The string under which the store names the document of identity n
\* (docRef.id, doc.id).
DocumentId(n) == ToString(n)

\* C13: the playlistId a successful buildPlaylist answers is the identity of
\* the Playlist document the call created, which is the id under which
\* fetchPlaylistname lists that playlist.
C13_PlaylistIdIsDocumentId ==
  [][Succeeds("a", "pl_add", "createPlaylists") =>
       \E pl \in playlists' \ playlists :
         lastRet'.val.playlistId = DocumentId(PlaylistName(pl).id)]_vars

\* The call in slot "a" has been rejected with the message msg and has done
\* nothing else: no step towards an external call or a store operation,
\* and no change to the store.
Rejected(op, msg) ==
  /\ lastRet' = [op |-> op, ok |-> FALSE, val |-> msg]
  /\ pc' = pc /\ loc' = loc
  /\ users' = users /\ emotions' = emotions /\ playlists' = playlists

\* C14: an authenticate, tagTrack or buildPlaylist call that lacks a
\* required input (username or password; sessionKey, trackId, trackTitle,
\* artist or emotion; sessionKey, group or a non-empty emotions list) fails
\* with the validation message before any external call and any store read
\* or write, and the store is unchanged.
C14_ValidationFirst ==
  [][/\ \A r \in IncompleteAuth :
          LastfmAuthFetch("a", r[1], r[2]) =>
            Rejected("lastfmAuth", "Username and password are required")
     /\ \A data \in IncompleteStoreEmotion :
          StoreEmotionLookup("a", data) =>
            Rejected("storeEmotion", "Missing the required fields")
     /\ \A r \in IncompleteCreatePlaylists :
          CreatePlaylistsQuery("a", r[1], r[2], "mix", r[3]) =>
            Rejected("createPlaylists", "Missing sessionkey or emotion")]_vars

C14_Witness ==
  /\ lastRet = [op |-> "createPlaylists", ok |-> FALSE,
                val |-> "Missing sessionkey or emotion"]
  /\ users["SK1"].exists
  /\ Cardinality(EmotionsOf("SK1")) = 2
  /\ playlists # {}

\* C15: group is optional for tagTrack. A call that supplies sessionKey,
\* trackId, trackTitle, artist and emotion and omits group and broadgroup
\* succeeds and leaves one record with that trackId in the session's
\* emotion collection, whether it inserts (no record of the track found) or
\* updates (a record found).
C15_GroupOptional ==
  [][LET l == loc["a"]
     IN Answers("a", "tag_write", "storeEmotion")
        /\ l.group = Undefined /\ l.broadgroup = Undefined =>
          /\ lastRet'.ok
          /\ Cardinality(WithTrack({e \in emotions' : e.sk = l.sessionKey},
                                   l.trackId)) = 1]_vars

\* The entries of a parameter object, whatever their order.
Entries(params) == Range(params)

ParamNamesOf(params) == {e.name : e \in Entries(params)}

\* The names whose values differ between two objects with the same names.
Differing(ps, qs) ==
  {n \in ParamNamesOf(ps) : \E e \in Entries(ps), f \in Entries(qs) :
                              e.name = n /\ f.name = n /\ e.value # f.value}

\* C16: signRequest gives two parameter objects with the same entries the
\* same signature whatever the order of the entries, and gives two objects
\* with the same names that differ in exactly one value different strings
\* to hash and so, the hash being injective, different signatures.
C16_SignatureOrderAndValue ==
  LET a == loc["a"]
      b == loc["b"]
  IN pc["a"] = "sign_done" /\ pc["b"] = "sign_done" =>
       /\ Entries(a.params) = Entries(b.params) => a.sig = b.sig
       /\ ParamNamesOf(a.params) = ParamNamesOf(b.params)
          /\ Cardinality(Differing(a.params, b.params)) = 1 =>
            /\ a.sig.md5 # b.sig.md5
            /\ a.sig # b.sig

C16_Witness ==
  /\ pc["a"] = "sign_done" /\ pc["b"] = "sign_done"
  /\ loc["a"].params = <<[name |-> <<1, 2>>, value |-> <<>>],
                         [name |-> <<1>>, value |-> <<2>>]>>
  /\ loc["b"].params = <<[name |-> <<1>>, value |-> <<2>>],
                         [name |-> <<1, 2>>, value |-> <<>>]>>
  /\ loc["a"].sig = [md5 |-> <<1, 2, 1, 2, 3>>]
  /\ loc["b"].sig = loc["a"].sig

\* C17: delete-one(S, recordId) answers success; it removes the record of
\* identity recordId from the emotion collection of S when there is one and
\* leaves every other record of S and of every other session unchanged;
\* when there is none the store is unchanged.
C17_DeleteOneFrame ==
  [][\A sk \in Keys, emotionId \in RecordIds :
       DeleteEmotion("a", sk, emotionId) =>
         /\ lastRet' = [op |-> "deleteEmotion", ok |-> TRUE, val |-> "success"]
         /\ emotions' = emotions \ {e \in emotions :
                                      e.sk = sk /\ e.id = emotionId}
         /\ emotionId \notin Ids(EmotionsOf(sk)) => emotions' = emotions
         /\ users' = users /\ playlists' = playlists]_vars

C17_Witness ==
  /\ lastRet.op = "deleteEmotion" /\ lastRet.ok
  /\ usedIds["SK1"] = {1, 2}
  /\ Ids(EmotionsOf("SK1")) = {2}
  /\ EmotionsOf("SK2") # {}

\* C18: a Playlist is a snapshot and is immutable. Whatever tagTrack,
\* delete-one, delete-all, listEmotions, authenticate, ensureProfile or
\* buildPlaylist step follows its creation, a Playlist document that is
\* still in the store has the name, group, emotions, songs and createdAt it
\* was created with.
C18_PlaylistImmutable ==
  [][\A pl \in playlists, q \in playlists' :
       q.sk = pl.sk /\ q.id = pl.id =>
         /\ q.name = pl.name /\ q.group = pl.group
         /\ q.emotions = pl.emotions /\ q.songs = pl.songs
         /\ q.createdAt = pl.createdAt]_vars

C18_Witness ==
  /\ \E pl \in PlaylistsOf("SK1") :
       /\ pl.emotions = {"joy"}
       /\ Len(pl.songs) = 1 /\ pl.songs[1].emotion = "joy"
  /\ \E e \in EmotionsOf("SK1") : e.trackId = "T1" /\ e.group = "calm"
  /\ users["SK1"].username = "alice"
  /\ users["SK1"].realname = "Alice A"

\* C19: a successful authenticate for a session key K whose Session
\* document already exists changes only username and lastLogin of that
\* document. Its createdAt and its userInfo (the real name ensureProfile
\* wrote) are unchanged, and so are the emotion records and the playlists,
\* so that fetchRealname(K) answers the same real name as before.
C19_ReauthenticateKeepsProfile ==
  [][LET K == loc["a"].sessionKey
     IN Succeeds("a", "auth_set", "lastfmAuth") /\ users[K].exists =>
          /\ users'[K].createdAt = users[K].createdAt
          /\ users'[K].realname = users[K].realname
          /\ users'[K].infoCreatedAt = users[K].infoCreatedAt
          /\ \A k \in Keys \ {K} : users'[k] = users[k]
          /\ emotions' = emotions /\ playlists' = playlists]_vars

\* C20: in searchTracks, when the primary search answers with a track list,
\* no secondary lookup ends the search, whatever it does, and the search
\* succeeds: its result holds the tracks of the primary answer in the same
\* order, a track whose lookup answered with artwork carries that artwork,
\* and a track whose lookup failed (or answered without artwork) is as the
\* primary answer gave it.
C20_SearchSurvivesLookupFailures ==
  [][LET l == loc["a"]
     IN /\ pc["a"] = "search_info" => pc'["a"] # "idle"
        /\ Answers("a", "search_return", "lastfmSearchforTracks")
           /\ l.kind = "results" =>
             /\ lastRet'.ok
             /\ Len(lastRet'.val) = Len(l.primary)
             /\ \A i \in 1..Len(l.primary) :
                  /\ lastRet'.val[i].name = l.primary[i].name
                  /\ lastRet'.val[i].artist = l.primary[i].artist
                  /\ l.outcomes[i] \in Artworks =>
                       lastRet'.val[i] =
                         [l.primary[i] EXCEPT !.image = l.outcomes[i]]
                  /\ l.outcomes[i] \notin Artworks =>
                       lastRet'.val[i] = l.primary[i]]_vars

C20_Witness ==
  /\ pc["a"] = "search_return"
  /\ loc["a"].kind = "results"
  /\ loc["a"].outcomes = <<"throw", "art">>
  /\ loc["a"].tracks = <<[name |-> "y", artist |-> "Artist", image |-> "thumb"],
                         [name |-> "x", artist |-> "Artist", image |-> "art"]>>
  /\ loc["a"].primary[2].image = Absent

====
